---- MODULE Spec2Model ----
(***************************************************************************)
(* Model of the Komplier support agent's decision pipeline.                *)
(*                                                                         *)
(* Two hosts run the pipeline:                                             *)
(*   - the agent (src/index.js, class KomplierAgent), driven by the Gmail  *)
(*     webhook: processNewEmails lists the unread messages and runs       *)
(*     processEmailContent on each, marking it as read on success;         *)
(*   - the process-emails endpoint (src/unnamed/part_001): processEmail    *)
(*     runs the pipeline on one posted email and executes the action.      *)
(*                                                                         *)
(* Spec is the agent under two webhook triggers, SpecEndpoint the endpoint *)
(* under two requests, SpecExecute the endpoint's executeAction and its    *)
(* handlers called with any user context the business rules read, and     *)
(* SpecRules one call of buildUserContext or of a BusinessRulesEngine      *)
(* method on any argument, its return value kept in calc.  SpecWebhook is  *)
(* the gmail-webhook handler under two events and the start of the agent,  *)
(* on configurations that may lack a required rule.  SpecLive is the agent *)
(* under notifications that recur, with collaborators that answer in the   *)
(* end, and SpecDeadline the agent when one awaited call never returns.    *)
(* SpecRedelivery is the webhook handler under notifications that recur on *)
(* one instance, and SpecColdStart the endpoint under two requests that    *)
(* find its service handles not yet assigned.                              *)
(*                                                                         *)
(* JavaScript is single-threaded: a handler runs atomically from one await *)
(* on an external call to the next.  Each action below is one such step:   *)
(* the pending external call completes (it succeeds or it fails) and the   *)
(* synchronous continuation runs up to the next external call.             *)
(*                                                                         *)
(* Text is modelled as the set of the tokens it contains, so that          *)
(* `text.includes(token)` is `token \in text`.  Confidence is in percent.  *)
(***************************************************************************)
EXTENDS Integers, Sequences, FiniteSets, TLC

VARIABLES
  rules,      \* BusinessRulesEngine.rules (config.businessRules)
  emails,     \* the mailbox: message id -> content, never mutated
  unread,     \* the ids carrying the UNREAD label
  pass,       \* the agent's processNewEmails passes, one per trigger
  req,        \* the process-emails endpoint's requests
  outbox,     \* every message the Gmail collaborator accepted for sending
  activity,   \* the rows inserted into agent_activity
  refunds,    \* the refunds the billing collaborator created
  marked,     \* the runs whose markEmailAsRead call succeeded
  calc,       \* one call of a rule-engine or adapter function: input, result
  agent,      \* the KomplierAgent object of each host: created, isRunning
  hook,       \* the gmail-webhook handler's invocations, one per event
  services    \* the process-emails endpoint's module-level service handles

vars ==
  <<rules, emails, unread, pass, req, outbox, activity, refunds, marked, calc,
    agent, hook, services>>

----------------------------------------------------------------------------
(* Bounds of the model *)

NumMsgs == 2

MsgIds == 1..NumMsgs

\* Two triggers, so that two passes may overlap or follow each other, and two
\* requests to the endpoint, so that one may repeat the other.
Passes == {1, 2}
Requests == {1, 2}

----------------------------------------------------------------------------
(* Inputs *)

\* Contents of a message: the tokens its sender and text contain.
EmailKinds ==
  { [from |-> {"customer"}, subject |-> {"refund"}, body |-> {"please"}],
    [from |-> {"customer"}, subject |-> {"help"}, body |-> {"lawsuit"}],
    [from |-> {"noreply"}, subject |-> {"receipt"}, body |-> {"thanks"}] }

ActionTypes == {"refund", "help_response", "general_info", "escalate", "other"}

\* What the oracle's JSON answer parses to.
Analyses ==
  [actionType : ActionTypes, confidence : {10, 95}]
    \cup { [actionType |-> "refund", confidence |-> 95, refundAmount |-> 2500] }

\* What model.generateContent / response.text() / JSON.parse produce.
OracleResponses ==
  { [kind |-> "transport_error"], [kind |-> "bad_json"] }
    \cup { [kind |-> "json", analysis |-> a] : a \in Analyses }

UsageFacts ==
  { [daysSinceSignup |-> 10, completedProjects |-> 0, compliantAssets |-> 2],
    [daysSinceSignup |-> 10, completedProjects |-> 3, compliantAssets |-> 2] }

\* null, or undefined, passed where an object is read.
Null == [null |-> TRUE]

\* String.prototype.toLowerCase on the tokens that carry capitals.
ToLower(t) ==
  CASE t = "LAWSUIT" -> "lawsuit"
    [] t = "Legal" -> "legal"
    [] t = "NoReply" -> "noreply"
    [] OTHER -> t

Lower(text) == { ToLower(t) : t \in text }

\* What the collaborators' lookups answer for one sender.
ScenarioA ==
  [daysSinceSignup |-> 10, completedProjects |-> 0, compliantAssets |-> 2]

ScenarioB ==
  [daysSinceSignup |-> 10, completedProjects |-> 3, compliantAssets |-> 2]

\* user, customer: what findUserByEmail and findCustomerByEmail answer;
\* details: the project, asset, subscription, billing-history and
\* eligibility reads; usage: the facts those reads return.
Lookups ==
  { [user |-> "error", customer |-> "none", details |-> "ok", usage |-> ScenarioA],
    [user |-> "none", customer |-> "none", details |-> "ok", usage |-> ScenarioA],
    [user |-> "found", customer |-> "none", details |-> "ok", usage |-> ScenarioA],
    [user |-> "found", customer |-> "found", details |-> "ok", usage |-> ScenarioA],
    [user |-> "found", customer |-> "found", details |-> "ok", usage |-> ScenarioB],
    [user |-> "found", customer |-> "found", details |-> "error", usage |-> ScenarioA],
    [user |-> "found", customer |-> "error", details |-> "ok", usage |-> ScenarioA] }

\* The configurations the rule engine may be constructed with.
Configs ==
  { [aiConfidenceThreshold |-> t,
     keywords |-> {"lawsuit", "legal"},
     sentimentThreshold |-> -50,
     compliantAssetsMax |-> 5,
     completedProjectsMax |-> 0,
     daysSinceSignupMax |-> 30,
     refundAmountDefault |-> 499] : t \in {5, 70} }

----------------------------------------------------------------------------
(* lib/ai.js *)

\* extractEmailInfo: the fields the pipeline reads afterwards.
extractEmailInfo(email) ==
  [from |-> email.from, subject |-> email.subject, body |-> email.body]

\* A mutant of FallbackAnalysis: the fallback asks for a general answer.
FallbackAnalysisAsksForInfo ==
  [actionType |-> "general_info", confidence |-> 10,
   reasoning |-> "Analysis failed - escalating to human",
   escalationReason |-> "AI analysis error"]

\* analyzeEmail lines 50-56: the analysis the catch block returns.
FallbackAnalysis ==
  [actionType |-> "escalate", confidence |-> 10,
   reasoning |-> "Analysis failed - escalating to human",
   escalationReason |-> "AI analysis error"]

\* A mutant of analyzeEmail: a JSON.parse failure escapes the adapter.
analyzeEmailRethrows(response) ==
  IF response.kind = "bad_json"
    THEN [threw |-> TRUE, analysis |-> FallbackAnalysis]
    ELSE IF response.kind = "json"
      THEN [threw |-> FALSE, analysis |-> response.analysis]
      ELSE [threw |-> FALSE, analysis |-> FallbackAnalysis]

\* analyzeEmail: the try block returns the parsed answer, the catch block
\* the fallback; nothing is rethrown.
analyzeEmail(response) ==
  IF response.kind = "json"
    THEN [threw |-> FALSE, analysis |-> response.analysis]
    ELSE [threw |-> FALSE, analysis |-> FallbackAnalysis]

----------------------------------------------------------------------------
(* lib/gmail.js *)

skipPatterns ==
  {"noreply", "no-reply", "donotreply", "automated", "notification",
   "unsubscribe", "delivery-subsystem"}

isValidSupportEmail(info) ==
  LET from == Lower(info.from)
      subject == Lower(info.subject)
  IN \A pattern \in skipPatterns :
       ~(pattern \in from \/ pattern \in subject)

----------------------------------------------------------------------------
(* lib/business-rules.js *)

highPriorityKeywords == {"legal", "ceo", "urgent", "lawsuit"}

\* A mutant of _calculatePriority: the sentiment and count rules are looked
\* at before the keyword rule.
calculatePrioritySentimentFirst(escalationReasons, aiAnalysis) ==
  IF "sentiment" \in DOMAIN aiAnalysis /\ aiAnalysis.sentiment # 0
       /\ aiAnalysis.sentiment < -60
    THEN "high"
    ELSE IF Len(escalationReasons) > 2 THEN "high"
    ELSE IF \E i \in 1..Len(escalationReasons) :
              Lower(escalationReasons[i]) \cap highPriorityKeywords # {}
      THEN "critical" ELSE "medium"

\* A reason is the tokens its text contains.
_calculatePriority(escalationReasons, aiAnalysis) ==
  IF \E i \in 1..Len(escalationReasons) :
       Lower(escalationReasons[i]) \cap highPriorityKeywords # {}
    THEN "critical"
    ELSE IF "sentiment" \in DOMAIN aiAnalysis /\ aiAnalysis.sentiment # 0
              /\ aiAnalysis.sentiment < -60
      THEN "high"
      ELSE IF Len(escalationReasons) > 2 THEN "high" ELSE "medium"

\* A mutant of KeywordReasons: the configured keyword is compared as it is
\* written, without toLowerCase.
RECURSIVE KeywordReasonsCaseSensitive(_, _)
KeywordReasonsCaseSensitive(keywords, content) ==
  IF keywords = {} THEN <<>>
  ELSE LET k == CHOOSE x \in keywords : TRUE
       IN (IF k \in content
             THEN << {"escalation keyword", k} >> ELSE <<>>)
            \o KeywordReasonsCaseSensitive(keywords \ {k}, content)

RECURSIVE KeywordReasons(_, _)
KeywordReasons(keywords, content) ==
  IF keywords = {} THEN <<>>
  ELSE LET k == CHOOSE x \in keywords : TRUE
       IN (IF ToLower(k) \in content
             THEN << {"escalation keyword", k} >> ELSE <<>>)
            \o KeywordReasons(keywords \ {k}, content)

\* A mutant of escalationCatch: the catch block lets the message through.
escalationCatchLetsThrough ==
  [escalate |-> FALSE, reasons |-> <<>>, priority |-> "medium"]

\* shouldEscalate lines 101-108: what the catch block returns.
escalationCatch ==
  [escalate |-> TRUE,
   reasons |-> << {"escalation evaluation error"} >>,
   priority |-> "high"]

\* The try block of shouldEscalate throws a TypeError: the configuration
\* has no escalation rules or no keyword list to iterate, or the email or
\* the analysis is null.  A null user context is read with `?.`.
escalationThrows(email, aiAnalysis) ==
  \/ "aiConfidenceThreshold" \notin DOMAIN rules
  \/ "keywords" \notin DOMAIN rules
  \/ email = Null
  \/ aiAnalysis = Null

\* A configuration without the escalation rules makes the try block throw:
\* the catch block escalates with priority high.
shouldEscalate(email, aiAnalysis, userContext) ==
  IF escalationThrows(email, aiAnalysis) THEN escalationCatch
  ELSE
  LET content == Lower(email.subject \cup email.body)
      lowConfidence ==
        IF "confidence" \in DOMAIN aiAnalysis
             /\ aiAnalysis.confidence < rules.aiConfidenceThreshold
          THEN << {"low ai confidence"} >> ELSE <<>>
      negative ==
        IF "sentiment" \in DOMAIN aiAnalysis /\ aiAnalysis.sentiment # 0
             /\ aiAnalysis.sentiment < rules.sentimentThreshold
          THEN << {"negative sentiment"} >> ELSE <<>>
      disputes ==
        IF "billing" \in DOMAIN userContext /\ userContext.billing.hasDisputes
          THEN << {"customer has active billing disputes"} >> ELSE <<>>
      escalationReasons ==
        lowConfidence \o KeywordReasons(rules.keywords, content)
          \o negative \o disputes
  IN [escalate |-> Len(escalationReasons) > 0,
      reasons |-> escalationReasons,
      priority |-> _calculatePriority(escalationReasons, aiAnalysis)]

\* A mutant of JsLess: the bound itself passes.
JsLessInclusive(userInfo, key, max) ==
  key \in DOMAIN userInfo /\ userInfo[key] <= max

\* `userInfo.x < max` with userInfo.x possibly undefined: false when it is.
JsLess(userInfo, key, max) == key \in DOMAIN userInfo /\ userInfo[key] < max
JsAtMost(userInfo, key, max) == key \in DOMAIN userInfo /\ userInfo[key] <= max

\* requestedAmount is {} when the analysis carries no refundAmount, {n} when
\* it carries n; `requestedAmount || default` takes the default for 0 too.
\* A configuration without the refund rules makes the try block throw: the
\* catch block returns a decision that carries no amount.
evaluateRefundRequest(userContext, requestedAmount) ==
  IF "compliantAssetsMax" \notin DOMAIN rules \/ userContext = Null
    THEN [autoApprove |-> FALSE,
          reasoning |-> "Evaluation error - escalating to human review",
          error |-> "TypeError"]
  ELSE
  LET userInfo ==
        IF "userInfo" \in DOMAIN userContext THEN userContext.userInfo
        ELSE [x \in {} |-> 0]
      checks ==
        [compliantAssets |->
           JsLess(userInfo, "compliantAssets", rules.compliantAssetsMax),
         completedProjects |->
           JsAtMost(userInfo, "completedProjects", rules.completedProjectsMax),
         daysSinceSignup |->
           JsAtMost(userInfo, "daysSinceSignup", rules.daysSinceSignupMax)]
  IN [autoApprove |-> \A k \in DOMAIN checks : checks[k],
      amount |-> IF requestedAmount # {} /\ requestedAmount # {0}
                   THEN CHOOSE a \in requestedAmount : TRUE
                   ELSE rules.refundAmountDefault * 100,
      conditions |-> checks]

----------------------------------------------------------------------------
(* buildUserContext (index.js and process-emails, the same code) *)

\* SupabaseOperations.calculateRefundEligibility: the usage facts and the
\* verdict on them.
calculateRefundEligibility(usage) ==
  [eligible |-> /\ usage.daysSinceSignup <= 30
                /\ usage.completedProjects = 0
                /\ usage.compliantAssets < 5,
   userInfo |-> usage]

\* A mutant of buildUserContext: a failed billing lookup is taken for a
\* customer that does not exist.
buildUserContextSwallowsBilling(lookup) ==
  IF lookup.user = "error"
    THEN [userFound |-> FALSE, email |-> "sender", error |-> "lookup failed"]
  ELSE IF lookup.user = "none"
    THEN [userFound |-> FALSE, email |-> "sender"]
  ELSE IF lookup.details = "error" /\ lookup.customer # "error"
    THEN [userFound |-> FALSE, email |-> "sender", error |-> "lookup failed"]
  ELSE [userFound |-> TRUE,
        user |-> "user",
        stripeCustomer |-> lookup.customer = "found",
        refundEligibility |-> calculateRefundEligibility(lookup.usage)]

buildUserContext(lookup) ==
  IF lookup.user = "error" \/ lookup.customer = "error"
    THEN [userFound |-> FALSE, email |-> "sender", error |-> "lookup failed"]
  ELSE IF lookup.user = "none"
    THEN [userFound |-> FALSE, email |-> "sender"]
  ELSE IF lookup.details = "error"
    THEN [userFound |-> FALSE, email |-> "sender", error |-> "lookup failed"]
  ELSE [userFound |-> TRUE,
        user |-> "user",
        stripeCustomer |-> lookup.customer = "found",
        refundEligibility |-> calculateRefundEligibility(lookup.usage)]

----------------------------------------------------------------------------
(* State shared by both hosts *)

Nothing == <<>>

RunId(host, n, m) == [host |-> host, n |-> n, msg |-> m]

RECURSIVE SeqOf(_)
SeqOf(S) ==
  IF S = {} THEN <<>>
  ELSE LET m == CHOOSE x \in S : \A y \in S : x <= y
       IN <<m>> \o SeqOf(S \ {m})

NoCall == [op |-> "none"]

\* The hosts that construct a KomplierAgent: the long-running process
\* (index.js run directly) and the gmail-webhook function.
Hosts == {"start", "webhook"}

\* No agent constructed yet; the constructor sets isRunning = false.
NoAgent == [created |-> FALSE, isRunning |-> FALSE, exited |-> FALSE]

NewAgent == [created |-> TRUE, isRunning |-> FALSE, exited |-> FALSE]

\* An agent whose initialize() returned and whose isRunning was set.
ServingAgent == [created |-> TRUE, isRunning |-> TRUE, exited |-> FALSE]

\* An invocation of the webhook handler that has not been received.
IdleHook == [pc |-> "idle", kind |-> "none", status |-> 0]

\* called: the run of the current message has called the lookups and the
\* oracle.
IdlePass ==
  [pc |-> "idle", list |-> <<>>, idx |-> 0, outcome |-> "none",
   called |-> FALSE]

IdleReq ==
  [pc |-> "idle", step |-> "none", msg |-> 0, ctx |-> Nothing,
   ai |-> Nothing, esc |-> Nothing, amount |-> 0, escalated |-> FALSE,
   oracle |-> "none", failed |-> "none", alerts |-> 0, result |-> "none",
   retry |-> FALSE]

Init ==
  /\ rules \in Configs
  /\ emails \in [MsgIds -> EmailKinds]
  /\ unread = MsgIds
  /\ pass = [p \in Passes |-> IdlePass]
  /\ req = [r \in Requests |-> IdleReq]
  /\ outbox = {}
  /\ activity = {}
  /\ refunds = {}
  /\ marked = {}
  /\ calc = NoCall
  /\ agent = [h \in Hosts |-> IF h = "webhook" THEN ServingAgent ELSE NoAgent]
  /\ hook = [e \in Passes |-> IdleHook]
  /\ services = "ready"

----------------------------------------------------------------------------
(* The agent: src/index.js, driven by src/api/gmail-webhook.js *)

Current(p) == pass[p].list[pass[p].idx]

\* A mutant of Advance: a message whose run failed ends the pass.
AdvanceAbortsOnFailure(rec) ==
  IF rec.idx < Len(rec.list) /\ rec.outcome \in {"true", "false"}
    THEN [rec EXCEPT !.pc = "content", !.idx = @ + 1, !.outcome = "none",
                     !.called = FALSE]
    ELSE [rec EXCEPT !.pc = "done"]

\* The end of one iteration of the for loop of processNewEmails, also when
\* the iteration ended in the catch of line 197: the next listed message, or
\* the end of the pass.  rec.outcome is the outcome of the iteration.
Advance(rec) ==
  IF rec.idx < Len(rec.list)
    THEN [rec EXCEPT !.pc = "content", !.idx = @ + 1, !.outcome = "none",
                     !.called = FALSE]
    ELSE [rec EXCEPT !.pc = "done"]

\* A mutant of shouldMark: the message is marked whatever the run returned.
shouldMarkAlways(outcome) == TRUE

\* processNewEmails line 192: `if (processed)`, reached only when
\* processEmailContent returned (a throw goes to the catch of line 197).
shouldMark(outcome) == outcome = "true"

\* What follows the run of the current message, whose outcome is "true",
\* "false" (returned) or "threw".
AfterRun(rec, outcome) ==
  IF shouldMark(outcome)
    THEN [rec EXCEPT !.pc = "mark", !.outcome = outcome]
    ELSE Advance([rec EXCEPT !.outcome = outcome])

\* A webhook notification for the monitored address reaches
\* processEmailsOnDemand, which calls processNewEmails.
Trigger(p) ==
  /\ pass[p].pc = "idle"
  /\ pass' = [pass EXCEPT ![p].pc = "search"]
  /\ UNCHANGED <<services, agent, hook, calc, rules, emails, unread, req, outbox, activity, refunds, marked>>

\* gmail.searchEmails('in:inbox is:unread') answers, or fails (the outer
\* catch ends the pass).
SearchEmails(p) ==
  /\ pass[p].pc = "search"
  /\ \/ pass' = [pass EXCEPT ![p].pc = "done"]
     \/ pass' = [pass EXCEPT ![p] =
                   IF unread = {} THEN [@ EXCEPT !.pc = "done"]
                   ELSE [@ EXCEPT !.pc = "content", !.list = SeqOf(unread),
                                  !.idx = 1]]
  /\ UNCHANGED <<services, agent, hook, calc, rules, emails, unread, req, outbox, activity, refunds, marked>>

\* gmail.getEmailContent answers or fails (the catch of line 197).
GetEmailContent(p) ==
  /\ pass[p].pc = "content"
  /\ \/ pass' = [pass EXCEPT ![p] =
                   Advance([@ EXCEPT !.outcome = "fetch_failed"])]
     \/ pass' = [pass EXCEPT ![p].pc = "process"]
  /\ UNCHANGED <<services, agent, hook, calc, rules, emails, unread, req, outbox, activity, refunds, marked>>

\* The outcome of processEmailContent up to its first effect: "true" for a
\* message that is no support request, "threw", or "log" when it goes on to
\* supabase.logActivity.  KomplierAgent defines neither handleEscalation
\* nor handleEmergencyEscalation: calling either throws a TypeError, so an
\* escalation enters the catch block, whose own call throws out of
\* processEmailContent.  executeAction only logs a line.
agentDecision(emailData, lookup, response) ==
  LET emailInfo == extractEmailInfo(emailData)
      userContext == buildUserContext(lookup)
      a == analyzeEmail(response)
  IN IF ~isValidSupportEmail(emailInfo) THEN "true"
     ELSE IF a.threw THEN "threw"
     ELSE IF shouldEscalate(emailInfo, a.analysis, userContext).escalate
       THEN "threw"
       ELSE "log"

\* A mutant of callsCollaborators: the lookups and the oracle are called
\* before the message is looked at.
callsCollaboratorsAlways(emailData) == TRUE

\* processEmailContent lines 219-236: buildUserContext, searchKnowledge and
\* analyzeEmail are called only for a message that passed
\* isValidSupportEmail.
callsCollaborators(emailData) ==
  isValidSupportEmail(extractEmailInfo(emailData))

\* processEmailContent from its start to its first effect: extractEmailInfo,
\* isValidSupportEmail, buildUserContext, searchKnowledge (which never
\* throws), analyzeEmail, shouldEscalate and the dispatch.  The lookups and
\* the oracle are read only; called records that the run called them.
ProcessEmailContent(p) ==
  /\ pass[p].pc = "process"
  /\ \E d \in { agentDecision(emails[Current(p)], lookup, response) :
                   lookup \in Lookups, response \in OracleResponses } :
       pass' = [pass EXCEPT ![p] =
                  LET run == [@ EXCEPT !.called =
                                callsCollaborators(emails[Current(p)])]
                  IN IF d = "log" THEN [run EXCEPT !.pc = "log"]
                     ELSE AfterRun(run, d)]
  /\ UNCHANGED <<services, agent, hook, calc, rules, emails, unread, req, outbox, activity, refunds, marked>>

\* A mutant of afterLogActivity: a failed insert is thrown out of
\* logActivity and out of processEmailContent.
afterLogActivityRethrows(rec, inserted) ==
  IF inserted THEN AfterRun(rec, "true") ELSE AfterRun(rec, "threw")

\* SupabaseOperations.logActivity catches a failed insert and returns;
\* processEmailContent returns true either way.
afterLogActivity(rec, inserted) == AfterRun(rec, "true")

\* supabase.logActivity('email_processed'): the insert succeeds, or fails
\* and is swallowed; processEmailContent returns true.
LogActivity(p) ==
  /\ pass[p].pc = "log"
  /\ \E inserted \in BOOLEAN :
       /\ activity' =
            IF inserted
              THEN activity \cup { [type |-> "email_processed",
                                    run |-> RunId("pass", p, Current(p))] }
              ELSE activity
       /\ pass' = [pass EXCEPT ![p] = afterLogActivity(@, inserted)]
  /\ UNCHANGED <<services, agent, hook, calc, rules, emails, unread, req, outbox, refunds, marked>>

\* gmail.markEmailAsRead removes the UNREAD label, or fails (caught by the
\* catch of line 197).
MarkEmailAsRead(p) ==
  /\ pass[p].pc = "mark"
  /\ \/ /\ unread' = unread \ {Current(p)}
        /\ marked' = marked \cup {RunId("pass", p, Current(p))}
        /\ pass' = [pass EXCEPT ![p] = Advance(@)]
     \/ /\ UNCHANGED <<unread, marked>>
        /\ pass' = [pass EXCEPT ![p] =
                      Advance([@ EXCEPT !.outcome = "mark_failed"])]
  /\ UNCHANGED <<services, agent, hook, calc, rules, emails, req, outbox, activity, refunds>>

AgentStep(p) ==
  \/ Trigger(p)
  \/ SearchEmails(p)
  \/ GetEmailContent(p)
  \/ ProcessEmailContent(p)
  \/ LogActivity(p)
  \/ MarkEmailAsRead(p)

----------------------------------------------------------------------------
(* The process-emails endpoint: src/unnamed/part_001 *)

Run(r) == RunId("req", r, req[r].msg)

Sent(kind, run) == [kind |-> kind, run |-> run]

Row(type, run) == [type |-> type, run |-> run]

RequestedAmount(aiAnalysis) ==
  IF "refundAmount" \in DOMAIN aiAnalysis THEN {aiAnalysis.refundAmount} ELSE {}

\* The locals of a run that no later step reads go out of scope.
Forget(rec) ==
  [rec EXCEPT !.ctx = Nothing, !.ai = Nothing, !.esc = Nothing, !.amount = 0]

\* handleEscalation is entered with the email, the analysis and the
\* escalation check.
Escalate(rec, check) ==
  [rec EXCEPT !.ctx = Nothing, !.amount = 0, !.pc = "escalation",
              !.step = "admin", !.esc = check]

\* A mutant of Throw: the catch block of processEmail returns without
\* running handleEmergencyEscalation.
ThrowSkipsAlert(rec, call) ==
  [Forget(rec) EXCEPT !.pc = "done", !.step = "none", !.failed = call,
                      !.result = "error_escalated"]

\* A handler threw: processEmail's catch block runs handleEmergencyEscalation.
\* `call` is the call that failed.
Throw(rec, call) ==
  [Forget(rec) EXCEPT !.pc = "catch", !.step = "alert", !.failed = call]

\* A handler returned `action`: processEmail returns it.
Return(rec, action) ==
  [Forget(rec) EXCEPT !.pc = "done", !.step = "none", !.result = action]

\* A mutant of afterAnalysis: the action type is dispatched before the
\* escalation check is looked at.
afterAnalysisNoPrecedence(rec, check) ==
  IF check.escalate /\ rec.ai.actionType \notin {"refund", "help_response", "general_info"}
    THEN [Escalate(rec, check) EXCEPT !.escalated = TRUE]
    ELSE [rec EXCEPT !.pc = "execute", !.escalated = check.escalate]

\* processEmail lines 118-125: an escalation goes to handleEscalation,
\* anything else to executeAction, where only handleRefundRequest reads the
\* user context.
afterAnalysis(rec, check) ==
  IF check.escalate
    THEN [Escalate(rec, check) EXCEPT !.escalated = TRUE]
    ELSE [rec EXCEPT !.pc = "execute",
                     !.ctx = IF rec.ai.actionType = "refund" THEN @ ELSE Nothing]

\* processEmail from its start to the dispatch, for the posted email, the
\* lookups' answers and the oracle's answer.
processEmail(rec, emailData, lookup, response) ==
  LET emailInfo == extractEmailInfo(emailData)
      userContext == buildUserContext(lookup)
      a == analyzeEmail(response)
      seen == [rec EXCEPT !.ctx = userContext, !.oracle = response.kind]
  IN IF ~isValidSupportEmail(emailInfo) THEN Return(rec, "ignored")
     ELSE IF a.threw THEN Throw(seen, "analysis")
     ELSE afterAnalysis([seen EXCEPT !.ai = a.analysis],
                        shouldEscalate(emailInfo, a.analysis, userContext))

\* An earlier request for message m has ended in error_escalated.
FailedBefore(m) ==
  \E q \in Requests :
    req[q].pc = "done" /\ req[q].msg = m /\ req[q].result = "error_escalated"

\* POST /process-emails with the content of message m.  retry records that
\* the request repeats one that had failed.
Post(r) ==
  /\ req[r].pc = "idle"
  /\ \E m \in MsgIds :
       req' = [req EXCEPT ![r].pc = "process", ![r].msg = m,
                          ![r].retry = FailedBefore(m)]
  /\ UNCHANGED <<services, agent, hook, calc, rules, emails, unread, pass, outbox, activity, refunds, marked>>

ProcessEmail(r) ==
  /\ req[r].pc = "process"
  /\ \E next \in { processEmail(req[r], emails[req[r].msg], lookup, response) :
                     lookup \in Lookups, response \in OracleResponses } :
       req' = [req EXCEPT ![r] = next]
  /\ UNCHANGED <<services, agent, hook, calc, rules, emails, unread, pass, outbox, activity, refunds, marked>>

\* A mutant of executeAction: an action type the switch does not know is
\* answered as a general-information request.
executeActionUnknownIsInfo(rec) ==
  CASE rec.ai.actionType = "refund" ->
         [rec EXCEPT !.pc = "refund", !.step = "evaluate"]
    [] rec.ai.actionType = "help_response" ->
         [Forget(rec) EXCEPT !.pc = "help", !.step = "send"]
    [] OTHER ->
         [Forget(rec) EXCEPT !.pc = "info", !.step = "send"]

\* executeAction: the switch on aiAnalysis.actionType.
executeAction(rec) ==
  CASE rec.ai.actionType = "refund" ->
         [rec EXCEPT !.pc = "refund", !.step = "evaluate"]
    [] rec.ai.actionType = "help_response" ->
         [Forget(rec) EXCEPT !.pc = "help", !.step = "send"]
    [] rec.ai.actionType = "general_info" ->
         [Forget(rec) EXCEPT !.pc = "info", !.step = "send"]
    [] OTHER ->
         Escalate(rec, [escalate |-> TRUE,
                        reasons |-> << {"unknown action type"} >>])

ExecuteAction(r) ==
  /\ req[r].pc = "execute"
  /\ req' = [req EXCEPT ![r] = executeAction(@)]
  /\ UNCHANGED <<services, agent, hook, calc, rules, emails, unread, pass, outbox, activity, refunds, marked>>

\* stripe.processRefund: a refund is created, or no refundable charge is
\* found, or a call to the billing collaborator fails.
RefundOutcomes == {"refunded", "no_refundable_charge", "call_failed"}

\* The succeeded, unrefunded charges of a customer, latest first.
ChargeLists == { <<>>, <<1000>>, <<49900>>, <<49900, 1000>> }

\* What list_charges and create_refund answer.
BillingAnswers ==
  { [listed |-> FALSE] }
    \cup [listed : {TRUE}, charges : ChargeLists, created : BOOLEAN]

RECURSIVE TotalPaid(_)
TotalPaid(charges) ==
  IF charges = <<>> THEN 0 ELSE Head(charges) + TotalPaid(Tail(charges))

\* stripe.processRefund: the latest refundable charge is looked up and
\* refunded by `amount`, whatever the charge or the customer paid.
processRefund(answer) ==
  IF ~answer.listed THEN "call_failed"
  ELSE IF answer.charges = <<>> THEN "no_refundable_charge"
  ELSE IF ~answer.created THEN "call_failed"
  ELSE "refunded"

\* A mutant of refundDecisionStep: processRefund is called although the
\* context holds no billing customer.
refundDecisionStepWithoutCustomer(rec) ==
  LET refundDecision ==
        evaluateRefundRequest(rec.ctx, RequestedAmount(rec.ai))
  IN IF refundDecision.autoApprove
       THEN [Forget(rec) EXCEPT !.step = "process",
                                !.amount = refundDecision.amount]
       ELSE Escalate(rec, [escalate |-> TRUE,
                           reasons |-> << {"refund requires manual approval"} >>,
                           priority |-> "high"])

\* handleRefundRequest up to its first external call.
refundDecisionStep(rec) ==
  LET refundDecision ==
        evaluateRefundRequest(rec.ctx, RequestedAmount(rec.ai))
  IN IF refundDecision.autoApprove
       THEN IF "stripeCustomer" \in DOMAIN rec.ctx /\ rec.ctx.stripeCustomer
              THEN [Forget(rec) EXCEPT !.step = "process",
                                       !.amount = refundDecision.amount]
              ELSE Throw(rec, "no_customer")
       ELSE Escalate(rec, [escalate |-> TRUE,
                           reasons |-> << {"refund requires manual approval"} >>,
                           priority |-> "high"])

\* handleRefundRequest lines 233-238 and 262-265: a failed confirmation send
\* is rethrown.
afterRefundSend(rec, sent) ==
  IF sent THEN [rec EXCEPT !.step = "log"] ELSE Throw(rec, "send")

HandleRefundRequest(r) ==
  /\ req[r].pc = "refund"
  /\ \/ /\ req[r].step = "evaluate"
        /\ req' = [req EXCEPT ![r] = refundDecisionStep(@)]
        /\ UNCHANGED <<outbox, activity, refunds>>
     \/ /\ req[r].step = "process"
        /\ \E answer \in BillingAnswers :
             IF processRefund(answer) = "refunded"
               THEN /\ refunds' = refunds \cup
                         { [run |-> Run(r), amount |-> req[r].amount,
                            paid |-> TotalPaid(answer.charges)] }
                    /\ req' = [req EXCEPT ![r].step = "send"]
               ELSE /\ refunds' = refunds
                    /\ req' = [req EXCEPT ![r] = Throw(@, "refund")]
        /\ UNCHANGED <<outbox, activity>>
     \/ /\ req[r].step = "send"
        /\ \E sent \in BOOLEAN :
             /\ outbox' = IF sent
                            THEN outbox \cup {Sent("refund_confirmation", Run(r))}
                            ELSE outbox
             /\ req' = [req EXCEPT ![r] = afterRefundSend(@, sent)]
        /\ UNCHANGED <<activity, refunds>>
     \/ /\ req[r].step = "log"
        /\ \/ activity' = activity \cup {Row("refund_processed", Run(r))}
           \/ activity' = activity
        /\ req' = [req EXCEPT ![r] = Return(@, "refund_processed")]
        /\ UNCHANGED <<outbox, refunds>>
  /\ UNCHANGED <<services, agent, hook, calc, rules, emails, unread, pass, marked>>

\* A mutant of afterResponseSend: the activity row is inserted although the
\* send failed.
afterResponseSendLogsAnyway(rec, sent) == [rec EXCEPT !.step = "log"]

\* handleHelpRequest lines 279-291 and handleGeneralInfo lines 313-323: a
\* failed send is rethrown before logActivity is reached.
afterResponseSend(rec, sent) ==
  IF sent THEN [rec EXCEPT !.step = "log"] ELSE Throw(rec, "send")

\* handleHelpRequest and handleGeneralInfo: generateResponse (which never
\* throws), sendEmail, logActivity (which never throws).
Respond(r, handler, kind, type) ==
  /\ req[r].pc = handler
  /\ \/ /\ req[r].step = "send"
        /\ \E sent \in BOOLEAN :
             /\ outbox' = IF sent THEN outbox \cup {Sent(kind, Run(r))}
                          ELSE outbox
             /\ req' = [req EXCEPT ![r] = afterResponseSend(@, sent)]
        /\ UNCHANGED activity
     \/ /\ req[r].step = "log"
        /\ \/ activity' = activity \cup {Row(type, Run(r))}
           \/ activity' = activity
        /\ req' = [req EXCEPT ![r] = Return(@, type)]
        /\ UNCHANGED outbox
  /\ UNCHANGED <<services, agent, hook, calc, rules, emails, unread, pass, refunds, marked>>

HandleHelpRequest(r) == Respond(r, "help", "help_response", "help_provided")

HandleGeneralInfo(r) == Respond(r, "info", "info_response", "info_provided")

\* handleEscalation lines 345-369: the admin notification quotes the
\* message, the reasons, the priority (medium when the check has none), the
\* analysis and the user context.
adminNotification(emailInfo, aiAnalysis, escalationCheck, userContext) ==
  [to |-> "admin",
   subject |-> {"[ESCALATED]"} \cup emailInfo.subject,
   body |-> [from |-> emailInfo.from,
             subject |-> emailInfo.subject,
             reasons |-> escalationCheck.reasons,
             priority |-> IF "priority" \in DOMAIN escalationCheck
                            THEN escalationCheck.priority ELSE "medium",
             original |-> emailInfo.body,
             analysis |-> aiAnalysis,
             context |-> userContext]]

\* A mutant of customerAcknowledgement: the acknowledgement quotes the
\* analysis.
customerAcknowledgementQuotesAnalysis(emailInfo, aiAnalysis, escalationCheck) ==
  [to |-> emailInfo.from,
   subject |-> emailInfo.subject,
   body |-> [template |-> "acknowledgement", about |-> emailInfo.subject,
             analysis |-> aiAnalysis],
   inReplyTo |-> emailInfo]

\* handleEscalation lines 371-385: the customer acknowledgement is a fixed
\* text that quotes the subject of the message, sent to its sender as a reply
\* in its thread.
customerAcknowledgement(emailInfo, aiAnalysis, escalationCheck) ==
  [to |-> emailInfo.from,
   subject |-> emailInfo.subject,
   body |-> [template |-> "acknowledgement", about |-> emailInfo.subject],
   inReplyTo |-> emailInfo]

\* A mutant of afterEscalationSend: the customer acknowledgement is left
\* out.
afterEscalationSendSkipsCustomer(rec) ==
  [rec EXCEPT !.step = "log", !.ai = Nothing, !.esc = Nothing]

\* handleEscalation lines 368-388: what follows a send that succeeded.  The
\* admin notification is followed by the customer acknowledgement, and that
\* one by the activity row.
afterEscalationSend(rec) ==
  IF rec.step = "admin"
    THEN [rec EXCEPT !.step = "customer", !.ai = Nothing, !.esc = Nothing]
    ELSE [rec EXCEPT !.step = "log"]

\* handleEscalation: the admin notification (built from the analysis and
\* the escalation check), the customer acknowledgement, the activity row.
HandleEscalation(r) ==
  /\ req[r].pc = "escalation"
  /\ \/ /\ req[r].step = "admin"
        /\ \/ /\ outbox' = outbox \cup {Sent("escalation_admin", Run(r))}
              /\ req' = [req EXCEPT ![r] = afterEscalationSend(@)]
           \/ /\ outbox' = outbox
              /\ req' = [req EXCEPT ![r] = Throw(@, "send")]
        /\ UNCHANGED activity
     \/ /\ req[r].step = "customer"
        /\ \/ /\ outbox' = outbox \cup {Sent("escalation_customer", Run(r))}
              /\ req' = [req EXCEPT ![r] = afterEscalationSend(@)]
           \/ /\ outbox' = outbox
              /\ req' = [req EXCEPT ![r] = Throw(@, "send")]
        /\ UNCHANGED activity
     \/ /\ req[r].step = "log"
        /\ \/ activity' = activity \cup {Row("escalated", Run(r))}
           \/ activity' = activity
        /\ req' = [req EXCEPT ![r] = Return(@, "escalated")]
        /\ UNCHANGED outbox
  /\ UNCHANGED <<services, agent, hook, calc, rules, emails, unread, pass, refunds, marked>>

\* A mutant of afterAlert: a failed alert is rethrown out of
\* handleEmergencyEscalation, and out of processEmail's catch block.
afterAlertRethrows(rec, sent) ==
  IF sent THEN Return([rec EXCEPT !.alerts = @ + 1], "error_escalated")
  ELSE [rec EXCEPT !.pc = "done", !.step = "none", !.alerts = @ + 1,
                   !.result = "threw"]

\* handleEmergencyEscalation lines 427-439 and processEmail lines 133-137:
\* the alert was sent or its failure was logged; processEmail returns
\* error_escalated.
afterAlert(rec, sent) ==
  Return([rec EXCEPT !.alerts = @ + 1], "error_escalated")

\* processEmail's catch block: handleEmergencyEscalation sends one alert to
\* the admin address.
HandleEmergencyEscalation(r) ==
  /\ req[r].pc = "catch"
  /\ \E sent \in BOOLEAN :
       /\ outbox' = IF sent THEN outbox \cup {Sent("emergency_alert", Run(r))}
                    ELSE outbox
       /\ req' = [req EXCEPT ![r] = afterAlert(@, sent)]
  /\ UNCHANGED <<services, agent, hook, calc, rules, emails, unread, pass, activity, refunds, marked>>

EndpointStep(r) ==
  \/ Post(r)
  \/ ProcessEmail(r)
  \/ ExecuteAction(r)
  \/ HandleRefundRequest(r)
  \/ HandleHelpRequest(r)
  \/ HandleGeneralInfo(r)
  \/ HandleEscalation(r)
  \/ HandleEmergencyEscalation(r)

----------------------------------------------------------------------------
(* Specifications *)

\* The agent under two webhook triggers.
Next == \E p \in Passes : AgentStep(p)

Spec == Init /\ [][Next]_vars

\* The process-emails endpoint under two requests.
NextEndpoint == \E r \in Requests : EndpointStep(r)

SpecEndpoint == Init /\ [][NextEndpoint]_vars

\* executeAction and the handlers of the endpoint, called with any user
\* context the business rules read: the ones buildUserContext returns, and
\* the same carrying the userInfo that evaluateRefundRequest looks up.
ExecuteContexts ==
  LET built == { buildUserContext(lookup) : lookup \in Lookups }
  IN built \cup { [userInfo |-> u] @@ c : u \in UsageFacts, c \in built }

InitExecute ==
  /\ rules \in Configs
  /\ emails \in [MsgIds -> EmailKinds]
  /\ unread = MsgIds
  /\ pass = [p \in Passes |-> IdlePass]
  /\ \E m \in MsgIds, c \in ExecuteContexts, a \in Analyses :
       req = [r \in Requests |->
                IF r = 1 THEN [IdleReq EXCEPT !.pc = "execute", !.msg = m,
                                              !.ctx = c, !.ai = a,
                                              !.oracle = "json"]
                ELSE IdleReq]
  /\ outbox = {}
  /\ activity = {}
  /\ refunds = {}
  /\ marked = {}
  /\ calc = NoCall
  /\ agent = [h \in Hosts |-> IF h = "webhook" THEN ServingAgent ELSE NoAgent]
  /\ hook = [e \in Passes |-> IdleHook]
  /\ services = "ready"

HandlerStep(r) ==
  \/ ExecuteAction(r)
  \/ HandleRefundRequest(r)
  \/ HandleHelpRequest(r)
  \/ HandleGeneralInfo(r)
  \/ HandleEscalation(r)
  \/ HandleEmergencyEscalation(r)

NextExecute == \E r \in Requests : HandlerStep(r)

SpecExecute == InitExecute /\ [][NextExecute]_vars

\* The rule engine and the adapters, each called once on its own: the
\* pure functions of src/lib/business-rules.js and buildUserContext, over
\* the inputs their parameters admit.
AllLookups ==
  [user : {"error", "none", "found"}, customer : {"error", "none", "found"},
   details : {"ok", "error"}, usage : {ScenarioA, ScenarioB}]

RuleUsage ==
  [daysSinceSignup : {10, 14, 29, 30, 31}, completedProjects : {0, 1, 3},
   compliantAssets : {2, 4, 5}]

BuiltContexts == { buildUserContext(lookup) : lookup \in AllLookups }

RefundContexts ==
  BuiltContexts
    \cup { [userInfo |-> u] @@ c : u \in RuleUsage, c \in BuiltContexts }

RequestedAmounts == { {}, {0}, {2500}, {-100} }

RuleEmails ==
  { [from |-> {"customer"}, subject |-> {"refund"}, body |-> {"please"}],
    [from |-> {"customer"}, subject |-> {"help"}, body |-> {"lawsuit"}],
    [from |-> {"customer"}, subject |-> {"LAWSUIT"}, body |-> {"please"}],
    [from |-> {"customer"}, subject |-> {"help"}, body |-> {"Legal", "lawsuit"}] }

Sentiments == {-70, -60, -55, -50, 0, 30}

RuleAnalyses ==
  { [actionType |-> "help_response"] }
    \cup [actionType : {"help_response"}, confidence : {10, 69, 70, 95}]
    \cup [actionType : {"help_response"}, confidence : {10, 95},
          sentiment : Sentiments]

EscalationContexts ==
  BuiltContexts
    \cup { [billing |-> [hasDisputes |-> b]] @@ c :
             b \in BOOLEAN, c \in BuiltContexts }

ReasonLists ==
  LET low == {"low ai confidence"}
      neg == {"negative sentiment"}
      disp == {"customer has active billing disputes"}
      kw(k) == {"escalation keyword", k}
  IN { <<>>, <<low>>, <<low, neg>>, <<low, neg, disp>>, <<kw("lawsuit")>>,
       <<kw("refund")>>, <<low, kw("Legal"), neg>>, <<kw("refund"), low, neg>>,
       <<low, kw("refund"), neg, disp>> }

\* Complete configurations, one without the refund rules and one without
\* the escalation rules.
RuleConfigs ==
  [aiConfidenceThreshold : {70}, keywords : {{"lawsuit", "Legal"}},
   sentimentThreshold : {-50}, compliantAssetsMax : {3, 5},
   completedProjectsMax : {0, 1}, daysSinceSignupMax : {14, 30},
   refundAmountDefault : {499}]
    \cup { [aiConfidenceThreshold |-> 70, keywords |-> {"lawsuit", "Legal"},
            sentimentThreshold |-> -50],
           [compliantAssetsMax |-> 5, completedProjectsMax |-> 0,
            daysSinceSignupMax |-> 30, refundAmountDefault |-> 499] }

InitRules ==
  /\ rules \in RuleConfigs
  /\ emails = [m \in MsgIds |-> CHOOSE e \in EmailKinds : TRUE]
  /\ unread = MsgIds
  /\ pass = [p \in Passes |-> IdlePass]
  /\ req = [r \in Requests |-> IdleReq]
  /\ outbox = {}
  /\ activity = {}
  /\ refunds = {}
  /\ marked = {}
  /\ calc = NoCall
  /\ agent = [h \in Hosts |-> IF h = "webhook" THEN ServingAgent ELSE NoAgent]
  /\ hook = [e \in Passes |-> IdleHook]
  /\ services = "ready"

CallBuildUserContext ==
  /\ calc = NoCall
  /\ \E lookup \in AllLookups :
       calc' = [op |-> "buildUserContext", lookup |-> lookup,
                result |-> buildUserContext(lookup)]
  /\ UNCHANGED <<services, agent, hook, rules, emails, unread, pass, req, outbox,
               activity, refunds, marked>>

CallEvaluateRefundRequest ==
  /\ calc = NoCall
  /\ \E userContext \in RefundContexts \cup {Null},
        requestedAmount \in RequestedAmounts :
       calc' = [op |-> "evaluateRefundRequest", userContext |-> userContext,
                requestedAmount |-> requestedAmount,
                result |-> evaluateRefundRequest(userContext, requestedAmount)]
  /\ UNCHANGED <<services, agent, hook, rules, emails, unread, pass, req, outbox,
               activity, refunds, marked>>

CallShouldEscalate ==
  /\ calc = NoCall
  /\ \E email \in RuleEmails \cup {Null}, aiAnalysis \in RuleAnalyses \cup {Null},
        userContext \in EscalationContexts \cup {Null} :
       calc' = [op |-> "shouldEscalate", email |-> email,
                aiAnalysis |-> aiAnalysis, userContext |-> userContext,
                result |-> shouldEscalate(email, aiAnalysis, userContext)]
  /\ UNCHANGED <<services, agent, hook, rules, emails, unread, pass, req, outbox,
               activity, refunds, marked>>

CallCalculatePriority ==
  /\ calc = NoCall
  /\ \E escalationReasons \in ReasonLists, aiAnalysis \in RuleAnalyses :
       calc' = [op |-> "_calculatePriority",
                escalationReasons |-> escalationReasons,
                aiAnalysis |-> aiAnalysis,
                result |-> _calculatePriority(escalationReasons, aiAnalysis)]
  /\ UNCHANGED <<services, agent, hook, rules, emails, unread, pass, req, outbox,
               activity, refunds, marked>>

\* The escalation checks handleEscalation is called with for an analysis:
\* the one shouldEscalate returns, the one of executeAction's default branch
\* and the one of a refund that needs manual approval.
EscalationChecks(email, aiAnalysis) ==
  { shouldEscalate(email, aiAnalysis, [userFound |-> FALSE, email |-> "sender"]),
    [escalate |-> TRUE, reasons |-> << {"unknown action type"} >>],
    [escalate |-> TRUE,
     reasons |-> << {"refund requires manual approval"} >>,
     priority |-> "high"] }

\* The two messages handleEscalation builds.
escalationMessages(email, aiAnalysis, escalationCheck) ==
  [aiAnalysis |-> aiAnalysis,
   escalationCheck |-> escalationCheck,
   admin |-> adminNotification(extractEmailInfo(email), aiAnalysis,
                               escalationCheck,
                               [userFound |-> FALSE, email |-> "sender"]),
   customer |-> customerAcknowledgement(extractEmailInfo(email), aiAnalysis,
                                        escalationCheck)]

\* handleEscalation called twice on the same message, with two analyses and
\* two escalation checks.
CallHandleEscalation ==
  /\ calc = NoCall
  /\ \E email \in RuleEmails, a1 \in Analyses, a2 \in Analyses :
       \E c1 \in EscalationChecks(email, a1), c2 \in EscalationChecks(email, a2) :
         calc' = [op |-> "handleEscalation", email |-> email,
                  first |-> escalationMessages(email, a1, c1),
                  second |-> escalationMessages(email, a2, c2)]
  /\ UNCHANGED <<services, agent, hook, rules, emails, unread, pass, req, outbox,
               activity, refunds, marked>>

\* The charges list_charges may answer with, latest first.
ChargeStatuses == {"succeeded", "pending", "failed"}

ChargeRecords == [id : {1, 2}, status : ChargeStatuses, refunded : BOOLEAN]

\* What list_charges answers: the call fails, the answer carries no data,
\* or it carries a list of the customer's charges.
ListAnswers ==
  { [kind |-> "error"], [kind |-> "no_data"], [kind |-> "data", data |-> <<>>] }
    \cup { [kind |-> "data", data |-> <<c>>] : c \in ChargeRecords }
    \cup { [kind |-> "data", data |-> <<c, d>>] :
             c \in { x \in ChargeRecords : x.id = 1 },
             d \in { x \in ChargeRecords : x.id = 2 } }

\* A mutant of refundable: a charge that is refunded already passes.
refundableIgnoresRefunded(charge) == charge.status = "succeeded"

\* processRefund lines 104-106: the predicate of find.
refundable(charge) == charge.status = "succeeded" /\ ~charge.refunded

\* Array.prototype.find: the first element that passes, {} for undefined.
RECURSIVE find(_)
find(data) ==
  IF data = <<>> THEN {}
  ELSE IF refundable(Head(data)) THEN {Head(data)}
  ELSE find(Tail(data))

\* processRefund: list_charges, find, create_refund.  The result records
\* the create_refund calls that were made and what processRefund threw.
processRefundCalls(listed, created) ==
  IF listed.kind = "error"
    THEN [creates |-> <<>>, threw |-> "list_charges failed"]
  ELSE
  LET latestPaidCharge == IF listed.kind = "data" THEN find(listed.data) ELSE {}
  IN IF latestPaidCharge = {}
       THEN [creates |-> <<>>,
             threw |-> "No refundable charges found for customer"]
       ELSE [creates |-> << CHOOSE c \in latestPaidCharge : TRUE >>,
             threw |-> IF created THEN "nothing" ELSE "create_refund failed"]

CallProcessRefund ==
  /\ calc = NoCall
  /\ \E listed \in ListAnswers, created \in BOOLEAN :
       calc' = [op |-> "processRefund", listed |-> listed,
                result |-> processRefundCalls(listed, created)]
  /\ UNCHANGED <<services, agent, hook, rules, emails, unread, pass, req, outbox,
               activity, refunds, marked>>

NextRules ==
  \/ CallBuildUserContext
  \/ CallEvaluateRefundRequest
  \/ CallShouldEscalate
  \/ CallCalculatePriority
  \/ CallHandleEscalation
  \/ CallProcessRefund

SpecRules == InitRules /\ [][NextRules]_vars

----------------------------------------------------------------------------
(* The gmail-webhook function and the start of the agent:                  *)
(* src/api/gmail-webhook.js, src/index.js                                  *)

\* The paths BusinessRulesEngine.validateConfig requires.
requiredRules ==
  {"compliantAssetsMax", "completedProjectsMax", "daysSinceSignupMax",
   "aiConfidenceThreshold", "keywords", "sentimentThreshold"}

\* A mutant of validateConfig: only the escalation threshold is looked for.
validateConfigThresholdOnly(config) == "aiConfidenceThreshold" \in DOMAIN config

\* validateConfig: true when no required path is missing; it throws
\* otherwise.
validateConfig(config) == requiredRules \subseteq DOMAIN config

\* A complete configuration, one without a refund threshold and one
\* without the keyword list.
WebhookConfigs ==
  LET complete == CHOOSE c \in Configs : c.aiConfidenceThreshold = 70
  IN { complete,
       [k \in DOMAIN complete \ {"daysSinceSignupMax"} |-> complete[k]],
       [k \in DOMAIN complete \ {"keywords"} |-> complete[k]] }

\* The Pub/Sub push the handler receives: without message.data, with data
\* that is no JSON, for another mailbox, or for the monitored mailbox.
EventKinds == {"no_data", "bad_json", "other_address", "accepted"}

\* The inbox behind the webhook: customers' requests.
WebhookEmailKinds == { k \in EmailKinds : "refund" \in k.subject }

InitWebhook ==
  /\ rules \in WebhookConfigs
  /\ emails \in [MsgIds -> WebhookEmailKinds]
  /\ unread = MsgIds
  /\ pass = [p \in Passes |-> IdlePass]
  /\ req = [r \in Requests |-> IdleReq]
  /\ outbox = {}
  /\ activity = {}
  /\ refunds = {}
  /\ marked = {}
  /\ calc = NoCall
  /\ agent = [h \in Hosts |-> NoAgent]
  /\ hook = [e \in Passes |-> IdleHook]
  /\ services = "ready"

\* The handler answers with `status`.
Answer(h, status) == [h EXCEPT !.pc = "done", !.status = status]

\* A mutant of onDemand: processEmailsOnDemand does not look at isRunning.
onDemandWhateverIsRunning(isRunning) == TRUE

\* processEmailsOnDemand lines 154-157: processNewEmails is called only
\* when the agent is running.
onDemand(isRunning) == isRunning

\* handler lines 90-110 once ensureAgentInitialized has returned the agent:
\* processEmailsOnDemand starts a pass, or returns false and the handler
\* answers 200 "No emails to process".
CallOnDemand(e, h, isRunning) ==
  IF onDemand(isRunning)
    THEN /\ pass' = [pass EXCEPT ![e].pc = "search"]
         /\ hook' = [hook EXCEPT ![e] = [h EXCEPT !.pc = "pass"]]
    ELSE /\ pass' = pass
         /\ hook' = [hook EXCEPT ![e] = Answer(h, 200)]

\* handler from its start to its first await on a collaborator: the event
\* is checked, and ensureAgentInitialized constructs the agent when
\* globalAgent is null, or else returns the one there is, initialized or not.
Receive(e) ==
  /\ hook[e].pc = "idle"
  /\ \E kind \in EventKinds :
       LET h == [hook[e] EXCEPT !.kind = kind]
       IN CASE kind = "no_data" ->
                 /\ hook' = [hook EXCEPT ![e] = Answer(h, 400)]
                 /\ UNCHANGED <<agent, pass>>
            [] kind = "bad_json" ->
                 /\ hook' = [hook EXCEPT ![e] = Answer(h, 500)]
                 /\ UNCHANGED <<agent, pass>>
            [] kind = "other_address" ->
                 /\ hook' = [hook EXCEPT ![e] = Answer(h, 200)]
                 /\ UNCHANGED <<agent, pass>>
            [] OTHER ->
                 IF ~agent["webhook"].created
                   THEN /\ agent' = [agent EXCEPT !["webhook"] = NewAgent]
                        /\ hook' = [hook EXCEPT ![e] = [h EXCEPT !.pc = "init"]]
                        /\ pass' = pass
                   ELSE /\ agent' = agent
                        /\ CallOnDemand(e, h, agent["webhook"].isRunning)
  /\ UNCHANGED <<services, calc, rules, emails, unread, req, outbox, activity, refunds,
                 marked>>

\* KomplierAgent.initialize returns or throws: it throws when a collaborator
\* cannot be started and when validateConfig throws.  ensureAgentInitialized
\* sets isRunning after it returned; a throw leaves globalAgent constructed
\* and not running, and the handler answers 500.
Initialize(e) ==
  /\ hook[e].pc = "init"
  /\ \E started \in BOOLEAN :
       IF started /\ validateConfig(rules)
         THEN /\ agent' = [agent EXCEPT !["webhook"].isRunning = TRUE]
              /\ CallOnDemand(e, hook[e], TRUE)
         ELSE /\ hook' = [hook EXCEPT ![e] = Answer(@, 500)]
              /\ UNCHANGED <<agent, pass>>
  /\ UNCHANGED <<services, calc, rules, emails, unread, req, outbox, activity, refunds,
                 marked>>

\* processNewEmails has returned: processEmailsOnDemand returns true and the
\* handler answers 200.
Finish(e) ==
  /\ hook[e].pc = "pass"
  /\ pass[e].pc = "done"
  /\ hook' = [hook EXCEPT ![e] = Answer(@, 200)]
  /\ UNCHANGED <<services, agent, calc, rules, emails, unread, pass, req, outbox, activity,
                 refunds, marked>>

\* index.js run directly: global.agent is constructed and start() called
\* (lines 107-123, 405-412): initialize returns and isRunning is set, or it
\* throws and the process exits.  Nothing in that process calls
\* processEmailsOnDemand.
StartAgent ==
  /\ agent["start"] = NoAgent
  /\ \E started \in BOOLEAN :
       agent' = [agent EXCEPT !["start"] =
                   IF started /\ validateConfig(rules)
                     THEN ServingAgent
                     ELSE [NewAgent EXCEPT !.exited = TRUE]]
  /\ UNCHANGED <<services, hook, calc, rules, emails, unread, pass, req, outbox, activity,
                 refunds, marked>>

\* SIGINT or SIGTERM in the process that runs index.js directly:
\* global.agent.shutdown() clears isRunning and exits.  The webhook function
\* keeps its agent in globalAgent, not in global.agent, so that a signal
\* there ends the process without a call of shutdown.
Shutdown ==
  /\ agent["start"] = ServingAgent
  /\ agent' = [agent EXCEPT !["start"].isRunning = FALSE,
                            !["start"].exited = TRUE]
  /\ UNCHANGED <<services, hook, calc, rules, emails, unread, pass, req, outbox, activity,
                 refunds, marked>>

WebhookStep(e) ==
  \/ Receive(e)
  \/ Initialize(e)
  \/ Finish(e)
  \/ SearchEmails(e)
  \/ GetEmailContent(e)
  \/ ProcessEmailContent(e)
  \/ LogActivity(e)
  \/ MarkEmailAsRead(e)

NextWebhook ==
  \/ StartAgent
  \/ Shutdown
  \/ \E e \in Passes : WebhookStep(e)

SpecWebhook == InitWebhook /\ [][NextWebhook]_vars

----------------------------------------------------------------------------
(* The agent under recurring notifications: src/index.js                   *)

\* processNewEmails has returned; the next notification finds the agent
\* ready for another pass.
Rearm(p) ==
  /\ pass[p].pc = "done"
  /\ pass' = [pass EXCEPT ![p] = IdlePass]
  /\ UNCHANGED <<services, agent, hook, calc, rules, emails, unread, req, outbox, activity,
                 refunds, marked>>

LiveStep(p) == AgentStep(p) \/ Rearm(p)

\* One notification after the other: every pass has ended when the next
\* one starts.
LivePasses == {1}

NextLive == \E p \in LivePasses : LiveStep(p)

\* The steps in which the collaborator that is called answers: the search
\* lists the unread messages; for message m the content is fetched, the
\* lookups and the oracle let processEmailContent return, the label is
\* removed.
SearchAnswers(p) == SearchEmails(p) /\ (unread # {} => pass'[p].pc = "content")

ContentAnswers(p, m) ==
  GetEmailContent(p) /\ Current(p) = m /\ pass'[p].pc = "process"

RunReturns(p, m) ==
  ProcessEmailContent(p) /\ Current(p) = m /\ pass'[p].pc \in {"log", "mark"}

MarkAnswers(p, m) == MarkEmailAsRead(p) /\ Current(p) = m /\ m \notin unread'

\* Notifications recur, every step that is started ends, and every
\* collaborator that is called again and again for a message answers in the
\* end.
Recurring ==
  \A p \in LivePasses :
    /\ WF_vars(LiveStep(p))
    /\ SF_vars(SearchAnswers(p))
    /\ \A m \in MsgIds :
         /\ SF_vars(ContentAnswers(p, m))
         /\ SF_vars(RunReturns(p, m))
         /\ SF_vars(MarkAnswers(p, m))

SpecLive == Init /\ [][NextLive]_vars /\ Recurring

----------------------------------------------------------------------------
(* A collaborator that never answers: src/index.js, src/lib/mcp-client.js  *)

\* The steps of a pass that await a collaborator.
AwaitingCollaborator == {"search", "content", "process", "log", "mark"}

\* The call a pass awaits never returns.  _callSubprocessTool and
\* _callHttpTool await fetch without a timeout or an abort signal, and
\* processNewEmails awaits each call in turn, so nothing continues the pass.
\* One call hangs: the other pass is not hung.
Hang(p) ==
  /\ pass[p].pc \in AwaitingCollaborator
  /\ \A q \in Passes \ {p} : pass[q].pc # "hung"
  /\ pass' = [pass EXCEPT ![p].pc = "hung"]
  /\ UNCHANGED <<services, agent, hook, calc, rules, emails, unread, req, outbox, activity,
                 refunds, marked>>

DeadlineStep(p) == LiveStep(p) \/ Hang(p)

NextDeadline == \E p \in Passes : DeadlineStep(p)

\* Every step that can end does end; nothing obliges a call to hang.
StepsEnd == \A p \in Passes : WF_vars(LiveStep(p))

SpecDeadline == Init /\ [][NextDeadline]_vars /\ StepsEnd

----------------------------------------------------------------------------
(* The webhook under notifications that recur: src/api/gmail-webhook.js    *)

\* The handler has answered; Pub/Sub pushes the next notification to the
\* same instance, whose globalAgent is kept.
Redeliver(e) ==
  /\ hook[e].pc = "done"
  /\ hook' = [hook EXCEPT ![e] = IdleHook]
  /\ pass' = [pass EXCEPT ![e] = IdlePass]
  /\ UNCHANGED <<services, agent, calc, rules, emails, unread, req, outbox, activity,
                 refunds, marked>>

RedeliveryStep(e) == WebhookStep(e) \/ Redeliver(e)

NextRedelivery == \E e \in LivePasses : RedeliveryStep(e)

\* A notification for the monitored address arrives.
Accepted(e) == Receive(e) /\ hook'[e].kind = "accepted"

\* initialize returns: the collaborators were started.
InitializeReturns(e) == Initialize(e) /\ agent'["webhook"].isRunning

\* Every step that is started ends, notifications for the monitored
\* address keep arriving, and an initialization that is attempted again and
\* again succeeds in the end.
Redelivered ==
  \A e \in LivePasses :
    /\ WF_vars(RedeliveryStep(e))
    /\ SF_vars(Accepted(e))
    /\ SF_vars(InitializeReturns(e))

SpecRedelivery == InitWebhook /\ [][NextRedelivery]_vars /\ Redelivered

----------------------------------------------------------------------------
(* The process-emails endpoint from a cold start: src/unnamed/part_001     *)

\* services: "none" while mcpClient is undefined, "client" once mcpClient is
\* assigned and the other handles are not, "constructed" once all handles
\* are assigned, "ready" once validateConfig has returned.
InitColdStart ==
  /\ rules \in Configs
  /\ emails \in [MsgIds -> EmailKinds]
  /\ unread = MsgIds
  /\ pass = [p \in Passes |-> IdlePass]
  /\ req = [r \in Requests |-> IdleReq]
  /\ outbox = {}
  /\ activity = {}
  /\ refunds = {}
  /\ marked = {}
  /\ calc = NoCall
  /\ agent = [h \in Hosts |-> IF h = "webhook" THEN ServingAgent ELSE NoAgent]
  /\ hook = [e \in Passes |-> IdleHook]
  /\ services = "none"

\* handler line 41: processEmail is called with the posted message m.  With
\* the handles assigned it runs as in Post; with ai and gmail undefined its
\* first line throws a TypeError, the catch block calls
\* handleEmergencyEscalation, whose own call of gmail.sendEmail throws and is
\* logged, and processEmail returns error_escalated.
enterProcessEmail(rec, m, handles) ==
  IF handles \in {"constructed", "ready"}
    THEN [rec EXCEPT !.pc = "process", !.msg = m, !.retry = FailedBefore(m)]
    ELSE afterAlert(Throw([rec EXCEPT !.msg = m], "services"), FALSE)

\* handler lines 27-41 up to its first await: initializeServices is entered
\* when mcpClient is undefined, and assigns mcpClient before it awaits
\* mcpClient.initialize(); otherwise processEmail is called at once.
Arrive(r) ==
  /\ req[r].pc = "idle"
  /\ IF services = "none"
       THEN /\ services' = "client"
            /\ req' = [req EXCEPT ![r].pc = "init"]
       ELSE /\ services' = services
            /\ \E m \in MsgIds :
                 req' = [req EXCEPT ![r] = enterProcessEmail(@, m, services)]
  /\ UNCHANGED <<agent, hook, calc, rules, emails, unread, pass, outbox,
                 activity, refunds, marked>>

\* initializeServices lines 74-86: mcpClient.initialize() returns, the
\* handles are assigned and validateConfig is called; a throw of either is
\* answered 500 by the handler, and mcpClient stays assigned.
InitializeServices(r) ==
  /\ req[r].pc = "init"
  /\ \E started \in BOOLEAN, m \in MsgIds :
       IF started /\ validateConfig(rules)
         THEN /\ services' = "ready"
              /\ req' = [req EXCEPT ![r] = enterProcessEmail(@, m, "ready")]
         ELSE /\ services' = IF started THEN "constructed" ELSE services
              /\ req' = [req EXCEPT ![r].pc = "done", ![r].result = "threw"]
  /\ UNCHANGED <<agent, hook, calc, rules, emails, unread, pass, outbox,
                 activity, refunds, marked>>

ColdStartStep(r) ==
  \/ Arrive(r)
  \/ InitializeServices(r)
  \/ ProcessEmail(r)
  \/ ExecuteAction(r)
  \/ HandleRefundRequest(r)
  \/ HandleHelpRequest(r)
  \/ HandleGeneralInfo(r)
  \/ HandleEscalation(r)
  \/ HandleEmergencyEscalation(r)

NextColdStart == \E r \in Requests : ColdStartStep(r)

SpecColdStart == InitColdStart /\ [][NextColdStart]_vars

----------------------------------------------------------------------------
(* Properties *)

\* The message is a genuine support request.
Genuine(m) == isValidSupportEmail(extractEmailInfo(emails[m]))

\* The terminal actions a run has performed: a refund submitted, a help
\* answer, a general-information answer or an escalation sent.
TerminalActions(run) ==
  { b \in {"refund", "help", "info", "escalation"} :
      \/ b = "refund" /\ \E f \in refunds : f.run = run
      \/ b = "help" /\ Sent("help_response", run) \in outbox
      \/ b = "info" /\ Sent("info_response", run) \in outbox
      \/ b = "escalation" /\ Sent("escalation_admin", run) \in outbox }

Listed(p, m) == \E i \in 1..Len(pass[p].list) : pass[p].list[i] = m

PassRun(p, m) == RunId("pass", p, m)

\* C1: when both passes have listed the same unread message, no more than
\* one acknowledgement is made for it and no more than one activity record
\* is appended for it.
C1_OneTerminalActionPerMessage ==
  \A m \in MsgIds :
    (\A p \in Passes : Listed(p, m)) =>
      /\ Cardinality({ x \in marked : x.msg = m }) <= 1
      /\ Cardinality({ a \in activity : a.run.msg = m }) <= 1

\* C2: every genuine support message a run has acknowledged had exactly
\* one terminal action performed for it by that run.
C2_AcknowledgedHadOneTerminalAction ==
  \A x \in marked :
    Genuine(x.msg) => Cardinality(TerminalActions(x)) = 1

\* C3: a run for which shouldEscalate returned escalate = true never enters
\* executeAction or the refund, help or general-information handler, leaves
\* no effect of theirs, and ends in an escalation outcome only.
C3_EscalationPrecedence ==
  \A r \in Requests :
    req[r].escalated =>
      /\ req[r].pc \in {"escalation", "catch", "done"}
      /\ TerminalActions(Run(r)) \subseteq {"escalation"}
      /\ Sent("refund_confirmation", Run(r)) \notin outbox
      /\ req[r].pc = "done" => req[r].result \in {"escalated", "error_escalated"}

\* C3 witness: an escalated run whose classification asked for a refund
\* with confidence 0.95 is in handleEscalation.
C3_Witness ==
  \E r \in Requests :
    /\ req[r].escalated
    /\ req[r].pc = "escalation"
    /\ req[r].step = "admin"
    /\ req[r].ai.actionType = "refund"
    /\ req[r].ai.confidence = 95

\* C4: markEmailAsRead is called for a message only by the pass whose run of
\* that message returned true; a run that failed or threw is followed by no
\* acknowledgement of its message in that pass.
C4_AcknowledgedOnlyAfterSuccess ==
  [][\A p \in Passes, m \in MsgIds :
       (PassRun(p, m) \in marked' /\ PassRun(p, m) \notin marked) =>
         /\ pass[p].pc = "mark"
         /\ pass[p].outcome = "true"
         /\ Current(p) = m]_vars

\* C4 witness: a pass has acknowledged one message and left another, whose
\* run failed, unacknowledged.
C4_Witness ==
  \E p \in Passes, m, n \in MsgIds :
    /\ PassRun(p, m) \in marked
    /\ pass[p].pc = "done"
    /\ Listed(p, n)
    /\ PassRun(p, n) \notin marked

\* C5: a pass ends only after the run of its last listed candidate, whatever
\* failed on the way, and a last run that failed leaves its message
\* unacknowledged by the pass.
C5_FailureDoesNotAbortPass ==
  \A p \in Passes :
    (pass[p].pc = "done" /\ pass[p].list # <<>>) =>
      /\ pass[p].idx = Len(pass[p].list)
      /\ pass[p].outcome # "none"
      /\ pass[p].outcome # "true" => PassRun(p, Current(p)) \notin marked

\* C5 witness: the first candidate's run failed and the pass went on to
\* acknowledge a later one.
C5_Witness ==
  \E p \in Passes :
    /\ pass[p].pc = "done"
    /\ Len(pass[p].list) >= 2
    /\ PassRun(p, pass[p].list[1]) \notin marked
    /\ PassRun(p, pass[p].list[Len(pass[p].list)]) \in marked

\* The outbound messages of the branches (the emergency alert is none).
BranchKinds ==
  {"refund_confirmation", "help_response", "info_response",
   "escalation_admin", "escalation_customer"}

\* C6: when a request repeats one that failed for the same message, no
\* outbound message of a branch is sent twice for the message and no second
\* refund is submitted for it.
C6_RetryIsIdempotent ==
  \A r \in Requests :
    req[r].retry =>
      /\ \A o, q \in outbox :
           ( /\ o.kind \in BranchKinds
             /\ o.kind = q.kind
             /\ o.run.msg = req[r].msg
             /\ q.run.msg = req[r].msg ) => o = q
      /\ Cardinality({ f \in refunds : f.run.msg = req[r].msg }) <= 1

C10_AnalyzeEmailFallsBack ==
  \A r \in Requests :
    req[r].oracle \in {"transport_error", "bad_json"} =>
      /\ req[r].failed # "analysis"
      /\ req[r].pc \in {"execute", "escalation"} /\ req[r].ai # Nothing
           => req[r].ai = FallbackAnalysis
      /\ req[r].pc \notin {"refund", "help", "info"}

\* C10 witness: a run whose oracle answer was no JSON escalates with the
\* fallback analysis.
C10_Witness ==
  \E r \in Requests :
    /\ req[r].oracle = "bad_json"
    /\ req[r].pc = "escalation"
    /\ req[r].step = "admin"
    /\ req[r].ai = FallbackAnalysis

\* C11: every analysis a run holds has one of the four action types of
\* the schema and carries a confidence between 0 and 1.
C11_ClassificationObeysSchema ==
  \A r \in Requests :
    req[r].ai # Nothing =>
      /\ req[r].ai.actionType \in
           {"refund", "help_response", "escalate", "general_info"}
      /\ "confidence" \in DOMAIN req[r].ai
      /\ req[r].ai.confidence \in 0..100

\* A lookup that buildUserContext made has failed (the detail reads are
\* made only for a user that was found).
LookupFailed(lookup) ==
  \/ lookup.user = "error"
  \/ lookup.customer = "error"
  \/ lookup.user = "found" /\ lookup.details = "error"

DependentFields ==
  {"user", "stripeCustomer", "projects", "assetsData", "subscriptions",
   "billingHistory", "refundEligibility", "userInfo"}

\* C12: buildUserContext answers every failed lookup with a context that
\* has userFound = false and carries the error, and no context with
\* userFound = false carries a dependent field.
C12_BuildUserContextFoldsFailures ==
  calc.op = "buildUserContext" =>
    /\ LookupFailed(calc.lookup) =>
         ~calc.result.userFound /\ "error" \in DOMAIN calc.result
    /\ ~calc.result.userFound =>
         DOMAIN calc.result \cap DependentFields = {}

\* C12 witness: the billing lookup of a known user failed.
C12_Witness ==
  /\ calc.op = "buildUserContext"
  /\ calc.lookup.user = "found"
  /\ calc.lookup.customer = "error"
  /\ ~calc.result.userFound

\* The usage facts a context built by buildUserContext carries.
UsageOf(ctx) ==
  IF "refundEligibility" \in DOMAIN ctx
    THEN {ctx.refundEligibility.userInfo} ELSE {}

\* C13: when handleRefundRequest evaluates a request that names no amount
\* for a billing customer whose context carries scenario A, it goes on to
\* submit a refund of 49900; with scenario B it escalates with priority
\* high and submits nothing.
C13_RefundScenarios ==
  [][\A r \in Requests :
       ( /\ req[r].pc = "refund"
         /\ req[r].step = "evaluate"
         /\ req'[r] # req[r]
         /\ "refundAmount" \notin DOMAIN req[r].ai
         /\ "stripeCustomer" \in DOMAIN req[r].ctx
         /\ req[r].ctx.stripeCustomer )
       => /\ UsageOf(req[r].ctx) = {ScenarioA} =>
               /\ req'[r].pc = "refund"
               /\ req'[r].step = "process"
               /\ req'[r].amount = 49900
          /\ UsageOf(req[r].ctx) = {ScenarioB} =>
               /\ req'[r].pc = "escalation"
               /\ req'[r].esc.priority = "high"
               /\ refunds' = refunds]_vars

C15_ReadmeRefundRule ==
  ( /\ calc.op = "evaluateRefundRequest"
    /\ "compliantAssetsMax" \in DOMAIN rules
    /\ rules.compliantAssetsMax = 5
    /\ rules.completedProjectsMax = 0
    /\ rules.daysSinceSignupMax = 30
    /\ calc.result.autoApprove )
  => /\ calc.userContext.userInfo.compliantAssets < 5
     /\ calc.userContext.userInfo.completedProjects = 0
     /\ calc.userContext.userInfo.daysSinceSignup < 30

\* C16: with the refund rules configured, every refund decision carries an
\* amount: the requested amount when one is supplied, the configured
\* default in minor units otherwise.
C16_RefundAmount ==
  (calc.op = "evaluateRefundRequest" /\ "refundAmountDefault" \in DOMAIN rules) =>
    /\ "amount" \in DOMAIN calc.result
    /\ \A n \in calc.requestedAmount : calc.result.amount = n
    /\ calc.requestedAmount = {} =>
         calc.result.amount = rules.refundAmountDefault * 100

C19_EscalationDecisionIsWellFormed ==
  \A r \in Requests :
    req[r].esc # Nothing =>
      /\ req[r].esc.escalate <=> Len(req[r].esc.reasons) > 0
      /\ "priority" \in DOMAIN req[r].esc
      /\ req[r].esc.priority \in {"medium", "high", "critical"}

\* C20: the priority is critical when a reason names legal, ceo, urgent or
\* lawsuit; otherwise high when the sentiment is below -0.6 or there are
\* more than two reasons; otherwise medium.
C20_PriorityRule ==
  calc.op = "_calculatePriority" =>
    LET severe ==
          \E i \in 1..Len(calc.escalationReasons) :
            Lower(calc.escalationReasons[i])
              \cap {"legal", "ceo", "urgent", "lawsuit"} # {}
        negative ==
          /\ "sentiment" \in DOMAIN calc.aiAnalysis
          /\ calc.aiAnalysis.sentiment < -60
    IN calc.result =
         IF severe THEN "critical"
         ELSE IF negative \/ Len(calc.escalationReasons) > 2 THEN "high"
         ELSE "medium"

\* C20 witness: a keyword reason among three, with a sentiment of -0.7,
\* gives critical.
C20_Witness ==
  /\ calc.op = "_calculatePriority"
  /\ Len(calc.escalationReasons) > 2
  /\ "sentiment" \in DOMAIN calc.aiAnalysis
  /\ calc.aiAnalysis.sentiment = -70
  /\ calc.result = "critical"

\* The action types executeAction has a case for.
KnownActions == {"refund", "help_response", "general_info"}

\* C21: a run that shouldEscalate let through and whose action type is not
\* refund, help_response or general_info enters handleEscalation with the
\* single reason "unknown action type" and without any effect; a run in
\* handleEscalation, or one that returned "escalated", has performed no
\* refund, help or information action, and the one that returned "escalated"
\* has sent the admin notification and the customer acknowledgement.
C21_UnknownActionIsEscalated ==
  /\ [](\A r \in Requests :
          /\ req[r].pc = "escalation" =>
               TerminalActions(Run(r)) \subseteq {"escalation"}
          /\ (req[r].pc = "done" /\ req[r].result = "escalated") =>
               /\ TerminalActions(Run(r)) = {"escalation"}
               /\ Sent("escalation_admin", Run(r)) \in outbox
               /\ Sent("escalation_customer", Run(r)) \in outbox)
  /\ [][\A r \in Requests :
          ( /\ req[r].pc = "execute"
            /\ ~req[r].escalated
            /\ req[r].ai.actionType \notin KnownActions
            /\ req'[r] # req[r] )
          => /\ req'[r].pc = "escalation"
             /\ req'[r].step = "admin"
             /\ req'[r].esc.reasons = << {"unknown action type"} >>
             /\ UNCHANGED <<outbox, refunds, activity>>]_vars

\* C21 witness: a run classified "escalate" with confidence 0.95, which
\* shouldEscalate let through, is in handleEscalation for an unknown action
\* type.
C21_Witness ==
  \E r \in Requests :
    /\ ~req[r].escalated
    /\ req[r].pc = "escalation"
    /\ req[r].step = "admin"
    /\ req[r].ai = [actionType |-> "escalate", confidence |-> 95]
    /\ req[r].esc.reasons = << {"unknown action type"} >>

\* The messages a run has had accepted for sending.
SentBy(run) == { x \in outbox : x.run = run }

\* C22: a run that returned "escalated" has sent the admin notification and
\* the customer acknowledgement and nothing else; the customer
\* acknowledgement is sent only when the admin notification has been, and
\* the "escalated" activity row is inserted only when both have been.
C22_EscalationSendsTwoInOrder ==
  /\ [](\A r \in Requests :
          /\ (req[r].pc = "done" /\ req[r].result = "escalated") =>
               SentBy(Run(r)) = { Sent("escalation_admin", Run(r)),
                                  Sent("escalation_customer", Run(r)) }
          /\ Row("escalated", Run(r)) \in activity =>
               /\ Sent("escalation_admin", Run(r)) \in outbox
               /\ Sent("escalation_customer", Run(r)) \in outbox)
  /\ [][\A r \in Requests :
          /\ Sent("escalation_customer", Run(r)) \in outbox' \ outbox =>
               Sent("escalation_admin", Run(r)) \in outbox
          /\ Row("escalated", Run(r)) \in activity' \ activity =>
               /\ Sent("escalation_admin", Run(r)) \in outbox
               /\ Sent("escalation_customer", Run(r)) \in outbox]_vars

\* C22 witness: a run has returned "escalated" and its activity row exists.
C22_Witness ==
  \E r \in Requests :
    /\ req[r].pc = "done"
    /\ req[r].result = "escalated"
    /\ Row("escalated", Run(r)) \in activity
    /\ Cardinality(SentBy(Run(r))) = 2

\* C23: for two calls of handleEscalation on the same message, whatever the
\* two analyses and the two escalation checks, the customer acknowledgements
\* have the same recipient, subject, body and thread.
C23_AcknowledgementCarriesNoAiContent ==
  calc.op = "handleEscalation" => calc.first.customer = calc.second.customer

\* C23 witness: two calls on one message whose analyses and reasons differ:
\* the admin notifications differ and the customer acknowledgements are the
\* same.
C23_Witness ==
  /\ calc.op = "handleEscalation"
  /\ calc.first.aiAnalysis.actionType # calc.second.aiAnalysis.actionType
  /\ calc.first.aiAnalysis.confidence # calc.second.aiAnalysis.confidence
  /\ calc.first.escalationCheck.reasons # calc.second.escalationCheck.reasons
  /\ calc.first.admin # calc.second.admin
  /\ calc.first.customer = calc.second.customer
  /\ calc.first.customer.to = calc.email.from

\* C24: the run of a message whose sender or subject matches a skip pattern
\* calls neither the lookups nor the oracle, sends nothing, refunds nothing
\* and inserts no activity row; it returns true at once, so that the same
\* pass goes on to markEmailAsRead for the message.
C24_AutomatedMessageSkipsPipeline ==
  /\ [](\A p \in Passes :
          /\ \A m \in MsgIds :
               ~Genuine(m) =>
                 /\ SentBy(PassRun(p, m)) = {}
                 /\ \A f \in refunds : f.run # PassRun(p, m)
                 /\ \A a \in activity : a.run # PassRun(p, m)
          /\ (pass[p].idx > 0 /\ ~Genuine(Current(p))) => ~pass[p].called)
  /\ [][\A p \in Passes :
          ( /\ pass[p].pc = "process"
            /\ ~Genuine(Current(p))
            /\ pass'[p] # pass[p] )
          => /\ pass'[p].pc = "mark"
             /\ pass'[p].outcome = "true"
             /\ pass'[p].idx = pass[p].idx
             /\ ~pass'[p].called
             /\ UNCHANGED <<outbox, refunds, activity>>]_vars

\* C24 witness: a pass is about to acknowledge a message from an automated
\* sender whose run called no collaborator, after the run of a genuine
\* message of the same pass, which did, was logged.
C24_Witness ==
  \E p \in Passes :
    /\ pass[p].pc = "mark"
    /\ pass[p].idx = 2
    /\ ~Genuine(Current(p))
    /\ ~pass[p].called
    /\ Genuine(pass[p].list[1])
    /\ \E a \in activity : a.run = PassRun(p, pass[p].list[1])

\* C26: a run whose activity row could not be inserted still returns true:
\* the pass goes on to markEmailAsRead for its message, and nothing is sent
\* on account of the failure; no run that reached logActivity ends as thrown
\* or false.
C26_AuditFailureIsNotPropagated ==
  [][\A p \in Passes :
       ( /\ pass[p].pc = "log"
         /\ pass'[p] # pass[p] )
       => /\ pass'[p].pc = "mark"
          /\ pass'[p].outcome = "true"
          /\ pass'[p].idx = pass[p].idx
          /\ outbox' = outbox]_vars

\* C26 witness: a run whose activity row is missing has been acknowledged.
C26_Witness ==
  \E p \in Passes, m \in MsgIds :
    /\ Genuine(m)
    /\ PassRun(p, m) \in marked
    /\ \A a \in activity : a.run # PassRun(p, m)
    /\ m \notin unread

\* C25: with a required threshold or the keyword list missing from the
\* configuration, initialization fails on both paths: no agent is ever
\* running, the started process exits, no webhook event starts a pass, and
\* nothing is sent, recorded or acknowledged.
C25_MissingRuleStopsInitialization ==
  (\E path \in requiredRules : path \notin DOMAIN rules) =>
    /\ \A h \in Hosts : ~agent[h].isRunning
    /\ \A e \in Passes : pass[e] = IdlePass
    /\ \A e \in Passes : hook[e].pc # "pass"
    /\ outbox = {} /\ activity = {} /\ marked = {} /\ unread = MsgIds

\* Both paths have failed on a configuration without a required rule: the
\* started process has exited, the event that initialized was answered 500
\* and a later accepted event was answered without a pass.
C25_Witness ==
  /\ \E path \in requiredRules : path \notin DOMAIN rules
  /\ agent["start"].exited
  /\ agent["webhook"] = NewAgent
  /\ \E e \in Passes : hook[e].kind = "accepted" /\ hook[e].status = 500
  /\ \E e \in Passes : hook[e].kind = "accepted" /\ hook[e].status = 200

\* C27: an event without message data is answered with an error status and
\* an event for another address with success, both without a pass; an
\* accepted event that is answered success has run one pass to its end.
C27_WebhookBoundary ==
  \A e \in Passes :
    hook[e].pc = "done" =>
      /\ hook[e].kind = "no_data" => hook[e].status = 400 /\ pass[e] = IdlePass
      /\ hook[e].kind = "other_address" => hook[e].status = 200 /\ pass[e] = IdlePass
      /\ hook[e].kind = "accepted" /\ hook[e].status = 200 => pass[e].pc = "done"

\* C28: under recurring notifications and collaborators that answer in the
\* end, every unread support request is acknowledged in the end.
C28_UnreadRequestIsEventuallyAcknowledged ==
  \A m \in MsgIds : (m \in unread /\ Genuine(m)) ~> (m \notin unread)

\* C29: a run whose collaborator call never returns is aborted: the pass
\* does not stay in that call for ever.
C29_HungRunIsAborted ==
  \A p \in Passes : (pass[p].pc = "hung") ~> (pass[p].pc # "hung")

\* C30: under the default thresholds 5 / 0 / 30, for the context that
\* buildUserContext builds for a found user, the decision of
\* evaluateRefundRequest auto-approves exactly when the context's
\* refundEligibility is eligible.
C30_EligibilityAgreesWithRuleEngine ==
  ( /\ calc.op = "evaluateRefundRequest"
    /\ calc.userContext \in BuiltContexts
    /\ calc.userContext.userFound
    /\ requiredRules \subseteq DOMAIN rules
    /\ rules.compliantAssetsMax = 5
    /\ rules.completedProjectsMax = 0
    /\ rules.daysSinceSignupMax = 30 )
  => calc.result.autoApprove = calc.userContext.refundEligibility.eligible

\* The charges of a list_charges answer.
ListedCharges(listed) ==
  IF listed.kind = "data"
    THEN { listed.data[i] : i \in 1..Len(listed.data) }
    ELSE {}

\* C31: processRefund calls create_refund at most once, and only against a
\* listed charge that has succeeded and is not refunded; when the list holds
\* no such charge it throws "No refundable charges found" and calls
\* create_refund not at all.
C31_RefundOnlyAgainstRefundableCharge ==
  calc.op = "processRefund" =>
    LET eligible == { c \in ListedCharges(calc.listed) :
                        c.status = "succeeded" /\ ~c.refunded }
        creates == calc.result.creates
    IN /\ Len(creates) <= 1
       /\ \A i \in 1..Len(creates) : creates[i] \in eligible
       /\ (eligible = {} /\ calc.listed.kind # "error") =>
            /\ creates = <<>>
            /\ calc.result.threw = "No refundable charges found for customer"
       /\ eligible # {} => Len(creates) = 1

\* The latest listed charge is refunded already and the one before it is
\* refundable: create_refund is called against the second.
C31_Witness ==
  /\ calc.op = "processRefund"
  /\ calc.listed.kind = "data"
  /\ Len(calc.listed.data) = 2
  /\ calc.listed.data[1].status = "succeeded"
  /\ calc.listed.data[1].refunded
  /\ calc.result.creates = << calc.listed.data[2] >>
  /\ calc.result.threw = "nothing"

\* C32: a run whose classification is the failure fallback (the oracle call
\* failed or its answer was no JSON) is never in a refund, help or
\* information handler and performs none of these actions, under the
\* threshold below the fallback's confidence as under the one above it; when
\* it has ended, it returned "escalated" or "error_escalated".
C32_FallbackNeverAutomates ==
  \A r \in Requests :
    req[r].oracle \in {"transport_error", "bad_json"} =>
      /\ req[r].pc \in {"execute", "escalation", "catch", "done"}
      /\ TerminalActions(Run(r)) \subseteq {"escalation"}
      /\ \A x \in refunds : x.run # Run(r)
      /\ req[r].pc = "done" => req[r].result \in {"escalated", "error_escalated"}

\* C32 witness: under the threshold 0.05 the fallback, whose confidence is
\* 0.1, passed shouldEscalate, fell to the unknown-action escalation and the
\* run returned "escalated".
C32_Witness ==
  \E r \in Requests :
    /\ rules.aiConfidenceThreshold < FallbackAnalysis.confidence
    /\ req[r].oracle = "transport_error"
    /\ ~req[r].escalated
    /\ req[r].pc = "done"
    /\ req[r].result = "escalated"

\* C33: handleRefundRequest goes on to call processRefund only from a
\* context whose user was found and that holds a billing customer, and a
\* refund is created only by a run that is in that call.
C33_RefundOnlyForKnownBillingCustomer ==
  [][\A r \in Requests :
       /\ ( /\ req[r].pc = "refund"
            /\ req[r].step = "evaluate"
            /\ req'[r].pc = "refund"
            /\ req'[r].step = "process" )
          => /\ req[r].ctx.userFound
             /\ "stripeCustomer" \in DOMAIN req[r].ctx
             /\ req[r].ctx.stripeCustomer
       /\ (\E x \in refunds' \ refunds : x.run = Run(r))
          => req[r].pc = "refund" /\ req[r].step = "process"]_vars

\* C33 witness: a refund was created for a run, which went on to the
\* confirmation.
C33_Witness ==
  \E r \in Requests :
    /\ req[r].pc = "refund"
    /\ req[r].step = "send"
    /\ \E x \in refunds : x.run = Run(r)

\* C34: shouldEscalate and evaluateRefundRequest return a decision for every
\* argument and configuration; when the escalation rules are missing or the
\* email or the analysis is null, the decision escalates with a reason and
\* priority high, and when the refund rules are missing or the context is
\* null, the decision does not auto-approve.
C34_RuleEngineFailsSafe ==
  /\ calc.op = "shouldEscalate" =>
       /\ {"escalate", "reasons", "priority"} \subseteq DOMAIN calc.result
       /\ ( \/ calc.email = Null
            \/ calc.aiAnalysis = Null
            \/ "keywords" \notin DOMAIN rules )
          => /\ calc.result.escalate
             /\ Len(calc.result.reasons) > 0
             /\ calc.result.priority = "high"
  /\ calc.op = "evaluateRefundRequest" =>
       /\ "autoApprove" \in DOMAIN calc.result
       /\ (calc.userContext = Null \/ "compliantAssetsMax" \notin DOMAIN rules)
          => ~calc.result.autoApprove

\* C34 witness: shouldEscalate was called with a null analysis under a
\* complete configuration, on a message without any keyword, and escalated
\* with priority high.
C34_Witness ==
  /\ calc.op = "shouldEscalate"
  /\ requiredRules \subseteq DOMAIN rules
  /\ calc.aiAnalysis = Null
  /\ calc.email # Null
  /\ calc.email.body = {"please"}
  /\ calc.email.subject = {"refund"}
  /\ calc.result.escalate
  /\ calc.result.priority = "high"

\* C35: an agent is running only after its initialization succeeded, which
\* takes a complete configuration, and not after shutdown; a notification's
\* pass starts only in a step that leaves the webhook's agent running; and
\* a notification that finds the agent constructed but not running (during
\* initialization or after it failed) is answered without a pass and
\* without any effect.
C35_PassOnlyOnRunningAgent ==
  /\ [](\A h \in Hosts :
          agent[h].isRunning =>
            /\ agent[h].created
            /\ ~agent[h].exited
            /\ requiredRules \subseteq DOMAIN rules)
  /\ [][\A e \in Passes :
          /\ (pass[e].pc = "idle" /\ pass'[e].pc # "idle")
             => agent'["webhook"].isRunning
          /\ ( /\ hook[e].pc = "idle"
               /\ hook'[e].kind = "accepted"
               /\ agent["webhook"].created
               /\ ~agent["webhook"].isRunning )
             => /\ hook'[e].pc = "done"
                /\ UNCHANGED <<agent, pass, unread, outbox, activity, refunds,
                               marked>>]_vars

\* C35 witness: under a complete configuration a notification arrived while
\* another one was initializing the agent and was answered without a pass;
\* the first one then started its pass on the running agent, and the agent
\* of the started process has shut down.
C35_Witness ==
  /\ requiredRules \subseteq DOMAIN rules
  /\ agent["webhook"].isRunning
  /\ agent["start"].exited
  /\ \E e, f \in Passes :
       /\ hook[e].pc = "pass"
       /\ pass[e].pc = "process"
       /\ hook[f].kind = "accepted"
       /\ hook[f].pc = "done"
       /\ hook[f].status = 200
       /\ pass[f] = IdlePass

\* C36: under a complete configuration, with notifications for the
\* monitored address that keep arriving and an initialization that succeeds
\* when it is attempted often enough, a notification starts a pass in the end.
C36_InitializationRecovers ==
  (requiredRules \subseteq DOMAIN rules) => <>(\E e \in LivePasses : pass[e].pc = "search")

\* C37: every request that has entered processEmail found all service
\* handles constructed and the configuration validated.
C37_RequestsUseInitializedServices ==
  [][\A r \in Requests :
       (req[r].msg = 0 /\ req'[r].msg # 0) => services' = "ready"]_vars

\* The activity rows a run has had inserted.
RowsOf(run) == { x \in activity : x.run = run }

\* C38: a refund_processed row exists only for a run that created a refund
\* and sent its confirmation, a help_provided or info_provided row only for
\* a run that sent its answer, an escalated row only for a run that sent
\* both escalation messages; a run one of whose calls failed has no row, and
\* no run has more than one row.
C38_RecordOnlyAfterEffects ==
  \A r \in Requests :
    LET run == Run(r)
    IN /\ Row("refund_processed", run) \in activity =>
            /\ \E f \in refunds : f.run = run
            /\ Sent("refund_confirmation", run) \in outbox
       /\ Row("help_provided", run) \in activity =>
            Sent("help_response", run) \in outbox
       /\ Row("info_provided", run) \in activity =>
            Sent("info_response", run) \in outbox
       /\ Row("escalated", run) \in activity =>
            /\ Sent("escalation_admin", run) \in outbox
            /\ Sent("escalation_customer", run) \in outbox
       /\ req[r].failed # "none" => RowsOf(run) = {}
       /\ Cardinality(RowsOf(run)) <= 1

\* C38 witness: one run sent its help answer and has its help_provided row,
\* another run's answer could not be sent and it has no row.
C38_Witness ==
  \E r, q \in Requests :
    /\ req[r].result = "help_provided"
    /\ RowsOf(Run(r)) = {Row("help_provided", Run(r))}
    /\ req[q].failed = "send"
    /\ req[q].result = "error_escalated"
    /\ RowsOf(Run(q)) = {}

====
